---------------------------- MODULE Spec2Model ----------------------------
(***************************************************************************)
(* Boston 311 dashboard: the query builder (sql_utils.py), the time period *)
(* catalog (time_periods.py), the data access layer (database.py), the     *)
(* color mapping service (color_mapping.py) and the reactive dashboard     *)
(* controller StateViewer (dashboard.py).                                  *)
(*                                                                         *)
(* Strings that reach a SQL literal are sequences of one-character         *)
(* strings, so that quoting is computed and not assumed.  Timestamps and   *)
(* the 'YYYY-MM-DD HH:MM:SS' strings are the integer yyyymmdd, which has   *)
(* the order of the formatted string (day granularity, time of day         *)
(* 00:00:00).  A query is its syntax tree; only string literals keep their *)
(* text.  A result set is a sequence of row numbers of the table.          *)
(***************************************************************************)
EXTENDS Integers, Sequences, FiniteSets, TLC

VARIABLES
    time_period,      \* StateViewer.time_period
    neighborhood,     \* StateViewer.neighborhood
    source,           \* StateViewer.source
    subject,          \* StateViewer.subject
    objects,          \* .objects of the neighborhood/source/subject selectors
    color_column,     \* StateViewer.color_column
    alpha,            \* StateViewer.alpha, in tenths
    size,             \* StateViewer.size
    data,             \* StateViewer.data: the (lazy) relation, as its query
    color_legend,     \* StateViewer.color_legend
    layers,           \* lb_map.layers
    view_state,       \* lb_map view state
    selected_data,    \* StateViewer.selected_data
    show_table,       \* StateViewer.show_table
    issued,           \* history: the queries built by the handlers of the last event
    steps,            \* history: (show_table, selected_data) after each assignment of the last event
    event,            \* history: the last event delivered and what it carried
    GLOBAL_COLOR_MAPPINGS,  \* color_mapping.GLOBAL_COLOR_MAPPINGS
    call,             \* the last call of a library function: its arguments
    result            \* ... and what it returned (or that it raised)

vars == <<time_period, neighborhood, source, subject, objects, color_column,
          alpha, size, data, color_legend, layers, view_state, selected_data,
          show_table, issued, steps, event, GLOBAL_COLOR_MAPPINGS, call, result>>

dashVars == <<time_period, neighborhood, source, subject, objects, color_column,
              alpha, size, data, color_legend, layers, view_state, selected_data,
              show_table, issued, steps, event, GLOBAL_COLOR_MAPPINGS>>

-----------------------------------------------------------------------------
(* Bounds of the model *)

\* longest string handed to escape_sql_string
MaxLen == 3
\* number of palette entries kept from cc.palette["glasbey_category10"]
PaletteLen == 2

-----------------------------------------------------------------------------
(* Strings *)

Chars == {"'", "a", "b"}

\* code points, for the binary collation of ORDER BY on VARCHAR
Ord(c) ==
    CASE c = "'" -> 39
      [] c = "A" -> 65
      [] c = "N" -> 78
      [] c = "a" -> 97
      [] c = "b" -> 98
      [] c = "e" -> 101
      [] c = "l" -> 108
      [] c = "o" -> 111
      [] OTHER   -> 0

RECURSIVE StrLess(_, _)
StrLess(s, t) ==
    IF t = <<>> THEN FALSE
    ELSE IF s = <<>> THEN TRUE
    ELSE IF Ord(Head(s)) # Ord(Head(t)) THEN Ord(Head(s)) < Ord(Head(t))
    ELSE StrLess(Tail(s), Tail(t))

StringsUpTo(n) == UNION {[1..k -> Chars] : k \in 0..n}

\* SQL NULL in a VARCHAR column, and Python's "All" / "None"
NULL == <<"NULL">>
All == <<"A", "l", "l">>
NoneStr == <<"N", "o", "n", "e">>

Min(a, b) == IF a < b THEN a ELSE b
Max(a, b) == IF a > b THEN a ELSE b


\* a function's outcome: it raised, or it returned a value
Raise == [raised |-> TRUE, value |-> <<>>]
Return(v) == [raised |-> FALSE, value |-> v]

-----------------------------------------------------------------------------
(* config.py *)

\* config.MAX_SELECTION_RECORDS is 1000 in config.py; scaled to the size of the table below
MAX_SELECTION_RECORDS == 2
DEFAULT_POINT_COLOR == <<255, 140, 0, 255>>
NULL_VALUE_COLOR == <<128, 128, 128>>
COLOR_COLUMNS == <<"source", "subject", "neighborhood">>
MIN_YEAR == 2011
RECENT_YEARS_COUNT == 6

Range(f) == {f[i] : i \in DOMAIN f}

-----------------------------------------------------------------------------
(* The requests table, loaded once by init_duckdb and never written again *)

NoGeometry == [null |-> TRUE, x |-> 0, y |-> 0]
Point(px, py) == [null |-> FALSE, x |-> px, y |-> py]

requests == <<
    [source |-> <<"a">>, subject |-> <<"a">>, neighborhood |-> <<"a">>,
     open_dt |-> 20250801, geometry |-> Point(1, 1)],
    [source |-> <<"b">>, subject |-> <<"a">>, neighborhood |-> <<"a", "'", "b">>,
     open_dt |-> 20250801, geometry |-> Point(2, 2)],
    [source |-> <<"a">>, subject |-> <<"b">>, neighborhood |-> <<"a", "'", "b">>,
     open_dt |-> 20250310, geometry |-> Point(3, 1)],
    [source |-> <<"b">>, subject |-> <<"b">>, neighborhood |-> NULL,
     open_dt |-> 20250620, geometry |-> Point(1, 3)],
    [source |-> <<"a">>, subject |-> <<"a">>, neighborhood |-> <<"b">>,
     open_dt |-> 20240505, geometry |-> NoGeometry],
    [source |-> NULL, subject |-> <<"b">>, neighborhood |-> <<"a">>,
     open_dt |-> 20120202, geometry |-> Point(2, 1)] >>

RowIds == DOMAIN requests

Col(r, column) ==
    CASE column = "source"       -> requests[r].source
      [] column = "subject"      -> requests[r].subject
      [] column = "neighborhood" -> requests[r].neighborhood

-----------------------------------------------------------------------------
(* sql_utils.py *)

\* validate_column_name that accepts every column name
validate_column_name_any(column) == Return(column)

validate_column_name(column) ==
    IF column \notin Range(COLOR_COLUMNS) THEN Raise ELSE Return(column)

\* escape_sql_string that leaves the value as it is
escape_noop(value) == value

\* value.replace("'", "''")
RECURSIVE escape_sql_string(_)
escape_sql_string(value) ==
    IF value = <<>> THEN <<>>
    ELSE (IF Head(value) = "'" THEN <<"'", "'">> ELSE <<Head(value)>>)
         \o escape_sql_string(Tail(value))

\* a date bound that is None or "" is 0 here
NoTimeFilter == [on |-> FALSE, start |-> 0, end |-> 0]

\* build_time_filter that never filters
build_time_filter_off(start_date, end_date) == NoTimeFilter

build_time_filter(start_date, end_date) ==
    IF start_date = 0 \/ end_date = 0 THEN NoTimeFilter
    ELSE [on |-> TRUE, start |-> start_date, end |-> end_date]

build_distinct_column_query(column, time_filter) ==
    LET validated_column == validate_column_name(column)
    IN  IF validated_column.raised THEN Raise
        ELSE Return([column |-> validated_column.value, time_filter |-> time_filter])

-----------------------------------------------------------------------------
(* The query engine: what con.sql(...) computes *)

\* The lexer's reading of a single-quoted literal: '' inside is one quote, a
\* lone quote ends the literal; ok iff the literal ends with the text.
RECURSIVE LitBody(_, _)
LitBody(text, acc) ==
    IF text = <<>> THEN [ok |-> FALSE, value |-> acc]
    ELSE IF Head(text) # "'" THEN LitBody(Tail(text), Append(acc, Head(text)))
    ELSE IF Len(text) >= 2 /\ text[2] = "'"
         THEN LitBody(Tail(Tail(text)), Append(acc, "'"))
    ELSE [ok |-> Len(text) = 1, value |-> acc]

ParseLiteral(text) ==
    IF text = <<>> \/ Head(text) # "'" THEN [ok |-> FALSE, value |-> <<>>]
    ELSE LitBody(Tail(text), <<>>)

InTime(r, tf) ==
    ~tf.on \/ (requests[r].open_dt >= tf.start /\ requests[r].open_dt < tf.end)

RECURSIVE SortAsc(_)
SortAsc(S) ==
    IF S = {} THEN <<>>
    ELSE LET m == CHOOSE x \in S : \A y \in S \ {x} : StrLess(x, y)
         IN  <<m>> \o SortAsc(S \ {m})

\* SELECT DISTINCT c FROM requests WHERE c IS NOT NULL{time_filter} ORDER BY c
ExecDistinct(q) ==
    SortAsc({Col(r, q.column) : r \in {x \in RowIds :
                 Col(x, q.column) # NULL /\ InTime(x, q.time_filter)}})

-----------------------------------------------------------------------------
(* time_periods.py *)

IsLeap(y) == (y % 4 = 0 /\ y % 100 # 0) \/ y % 400 = 0

DaysInMonth(y, m) ==
    IF m = 2 THEN (IF IsLeap(y) THEN 29 ELSE 28)
    ELSE IF m \in {4, 6, 9, 11} THEN 30 ELSE 31

\* date - timedelta(days=n), a month at a time
RECURSIVE MinusDays(_, _)
MinusDays(date, n) ==
    LET y == date[1]
        m == date[2]
        d == date[3]
        py == IF m > 1 THEN y ELSE y - 1
        pm == IF m > 1 THEN m - 1 ELSE 12
    IN  IF n < d THEN <<y, m, d - n>>
        ELSE MinusDays(<<py, pm, DaysInMonth(py, pm)>>, n - d)

\* date - relativedelta(months=k): the day is clipped to the target month
MinusMonths(date, k) ==
    LET total == date[1] * 12 + (date[2] - 1) - k
        y == total \div 12
        m == (total % 12) + 1
    IN  <<y, m, Min(date[3], DaysInMonth(y, m))>>

\* strftime("%Y-%m-%d %H:%M:%S")
Fmt(date) == date[1] * 10000 + date[2] * 100 + date[3]

\* f"{year}-01-01 00:00:00"
Jan1(year) == year * 10000 + 101

CompleteLabel == "Complete Dataset (2011-Present)"

get_time_periods(now) ==
    LET current_year == now[1]
        min_year == Max(MIN_YEAR, current_year - RECENT_YEARS_COUNT)
        \* range(current_year, min_year, -1)
        years == {y \in (min_year + 1)..current_year : TRUE}
        entries ==
            {<<ToString(y), <<Jan1(y), Jan1(y + 1)>>>> : y \in years}
            \cup {<<"Last 30 Days", <<Fmt(MinusDays(now, 30)), Fmt(now)>>>>,
                  <<"Last 90 Days", <<Fmt(MinusDays(now, 90)), Fmt(now)>>>>,
                  <<"Last 6 Months", <<Fmt(MinusMonths(now, 6)), Fmt(now)>>>>,
                  <<"Year to Date", <<Fmt(<<current_year, 1, 1>>), Fmt(now)>>>>,
                  <<CompleteLabel, <<Jan1(MIN_YEAR), Fmt(now)>>>>}
    IN  [l \in {e[1] : e \in entries} |-> (CHOOSE e \in entries : e[1] = l)[2]]

\* datetime.now() when the process starts
Now == <<2025, 8, 15>>

TIME_PERIODS == get_time_periods(Now)

-----------------------------------------------------------------------------
(* database.py: the distinct-value lookups.  pn.cache memoizes them by     *)
(* their arguments; the table is never written, so a memoized answer is    *)
(* the computed one.                                                       *)

DistinctLookup(column, start_date, end_date) ==
    LET time_filter == build_time_filter(start_date, end_date)
        query == build_distinct_column_query(column, time_filter)
        df == ExecDistinct(query.value)
    IN  IF df = <<>> THEN <<All>> ELSE df \o <<All>>

get_neighborhoods(start_date, end_date) ==
    DistinctLookup("neighborhood", start_date, end_date)

get_sources(start_date, end_date) == DistinctLookup("source", start_date, end_date)

get_subjects(start_date, end_date) == DistinctLookup("subject", start_date, end_date)

-----------------------------------------------------------------------------
(* The query engine, continued: the SELECT ... WHERE ... ORDER BY open_dt   *)
(* DESC queries of the dashboard.  A WHERE clause is the sequence of the    *)
(* conditions joined by AND.                                                *)

Cond(kind, column, literal, lo, hi, box) ==
    [kind |-> kind, column |-> column, literal |-> literal, lo |-> lo, hi |-> hi,
     box |-> box]

GeometryNotNull == Cond("geometry", "", <<>>, 0, 0, <<>>)
TimeRange(start, end) == Cond("time", "", <<>>, start, end, <<>>)
Equals(column, literal) == Cond("eq", column, literal, 0, 0, <<>>)
InBox(minx, miny, maxx, maxy) == Cond("bbox", "", <<>>, 0, 0, <<minx, miny, maxx, maxy>>)

\* the statement parses: every literal in it is a complete string literal
WhereOk(where) ==
    \A i \in DOMAIN where : where[i].kind = "eq" => ParseLiteral(where[i].literal).ok

Satisfies(r, c) ==
    CASE c.kind = "geometry" -> ~requests[r].geometry.null
      [] c.kind = "time" -> requests[r].open_dt >= c.lo /\ requests[r].open_dt < c.hi
      [] c.kind = "eq" -> /\ Col(r, c.column) # NULL
                          /\ Col(r, c.column) = ParseLiteral(c.literal).value
      [] c.kind = "bbox" -> /\ ~requests[r].geometry.null
                            /\ requests[r].geometry.x >= c.box[1]
                            /\ requests[r].geometry.x <= c.box[3]
                            /\ requests[r].geometry.y >= c.box[2]
                            /\ requests[r].geometry.y <= c.box[4]

Matching(where) == {r \in RowIds : \A i \in DOMAIN where : Satisfies(r, where[i])}

\* ORDER BY open_dt DESC: every order of the rows in which open_dt never
\* increases.  Rows with equal open_dt come in an order the engine chooses,
\* anew at each execution.
RECURSIVE DescOrders(_)
DescOrders(S) ==
    IF S = {} THEN {<<>>}
    ELSE LET tops == {r \in S : \A q \in S : requests[q].open_dt <= requests[r].open_dt}
         IN  UNION {{<<r>> \o t : t \in DescOrders(S \ {r})} : r \in tops}

\* SELECT source, subject, neighborhood, open_dt, geometry FROM requests
\* WHERE {where} ORDER BY open_dt DESC
ExecSelect(where) == DescOrders(Matching(where))

\* ... numbered by ROW_NUMBER() OVER (ORDER BY open_dt DESC) - 1,
\* WHERE row_index = {selected_index}
ExecPoint(where, selected_index) ==
    {IF selected_index + 1 <= Len(o) THEN <<o[selected_index + 1]>> ELSE <<>> :
        o \in ExecSelect(where)}

\* ... ORDER BY open_dt DESC, without the LIMIT
ExecLimit_unlimited(where, limit) == ExecSelect(where)

\* ... ORDER BY open_dt DESC LIMIT {limit}
ExecLimit(where, limit) ==
    {SubSeq(o, 1, Min(limit, Len(o))) : o \in ExecSelect(where)}

-----------------------------------------------------------------------------
(* color_mapping.py *)

HexDigits == <<"0", "1", "2", "3", "4", "5", "6", "7",
               "8", "9", "a", "b", "c", "d", "e", "f">>

HexVal(c) == (CHOOSE i \in DOMAIN HexDigits : HexDigits[i] = c) - 1

\* h = hex.strip("#"); [int(h[i:i+2], 16) for i in (0, 2, 4)]
to_rgb(hex) ==
    LET h == SelectSeq(hex, LAMBDA c : c # "#")
    IN  <<HexVal(h[1]) * 16 + HexVal(h[2]),
          HexVal(h[3]) * 16 + HexVal(h[4]),
          HexVal(h[5]) * 16 + HexVal(h[6])>>

\* f"{n:02x}"
Hex2(n) == <<HexDigits[(n \div 16) + 1], HexDigits[(n % 16) + 1]>>

\* f"#{r:02x}{g:02x}{b:02x}"
HexColor(rgb) == <<"#">> \o Hex2(rgb[1]) \o Hex2(rgb[2]) \o Hex2(rgb[3])

\* the head of cc.palette["glasbey_category10"]
GlasbeyCategory10 == <<
    <<"#", "1", "f", "7", "7", "b", "4">>,
    <<"#", "f", "f", "7", "f", "0", "e">>,
    <<"#", "2", "c", "a", "0", "2", "c">>,
    <<"#", "d", "6", "2", "7", "2", "8">> >>

Palette == SubSeq(GlasbeyCategory10, 1, Min(PaletteLen, Len(GlasbeyCategory10)))

Index(seq, v) == CHOOSE i \in DOMAIN seq : seq[i] = v

\* a mapping computed over the rows of the last 30 days instead of the full table
ColumnColorMapping_recent(column) ==
    LET colors == [i \in DOMAIN Palette |-> to_rgb(Palette[i])]
        query == build_distinct_column_query(
                     column, build_time_filter(Fmt(MinusDays(Now, 30)), Fmt(Now)))
        unique_values == ExecDistinct(query.value)
    IN  [v \in Range(unique_values) \cup {NoneStr} |->
            IF v = NoneStr THEN NULL_VALUE_COLOR
            ELSE colors[((Index(unique_values, v) - 1) % Len(colors)) + 1]]

ColumnColorMapping(column) ==
    LET colors == [i \in DOMAIN Palette |-> to_rgb(Palette[i])]
        query == build_distinct_column_query(column, NoTimeFilter)
        unique_values == ExecDistinct(query.value)
    IN  [v \in Range(unique_values) \cup {NoneStr} |->
            IF v = NoneStr THEN NULL_VALUE_COLOR
            ELSE colors[((Index(unique_values, v) - 1) % Len(colors)) + 1]]

get_global_color_mappings ==
    [column \in Range(COLOR_COLUMNS) |-> ColumnColorMapping(column)]

\* int(alpha * 255), alpha in tenths
AlphaChannel(a) == (a * 255) \div 10

\* {validated_column}::VARCHAR ... .astype(str): NULL becomes the string "None"
AsStr(v) == IF v = NULL THEN NoneStr ELSE v

\* the part of map_column_to_color after the mapping is looked up, without the
\* early return for an empty set: the colormap is applied to no values and raises
ColorsAndLegend_unguarded(rgb_color_map, duckframe, column, a, return_legend) ==
    LET values == [i \in DOMAIN duckframe |-> Col(duckframe[i], column)]
        color_array == [i \in DOMAIN values |->
                          rgb_color_map[AsStr(values[i])] \o <<AlphaChannel(a)>>]
        legend_keys == {v \in Range(values) : v # NULL /\ v \in DOMAIN rgb_color_map}
        legend_data == [v \in legend_keys |-> HexColor(rgb_color_map[v])]
    IN  IF DOMAIN rgb_color_map = {} THEN
            Return([colors |-> <<>>, legend |-> <<>>, has_legend |-> return_legend])
        ELSE IF duckframe = <<>> THEN Raise
        ELSE IF ~return_legend THEN
            Return([colors |-> color_array, legend |-> <<>>, has_legend |-> FALSE])
        ELSE Return([colors |-> color_array, legend |-> legend_data, has_legend |-> TRUE])

\* the part of map_column_to_color after the mapping is looked up
ColorsAndLegend(rgb_color_map, duckframe, column, a, return_legend) ==
    LET values == [i \in DOMAIN duckframe |-> Col(duckframe[i], column)]
        \* apply_categorical_cmap: a value with no entry is a KeyError
        unmapped == \E i \in DOMAIN values : AsStr(values[i]) \notin DOMAIN rgb_color_map
        color_array == [i \in DOMAIN values |->
                          rgb_color_map[AsStr(values[i])] \o <<AlphaChannel(a)>>]
        \* values_df["value"].unique() holds None, not "None", for NULL
        legend_keys == {v \in Range(values) : v # NULL /\ v \in DOMAIN rgb_color_map}
        legend_data == [v \in legend_keys |-> HexColor(rgb_color_map[v])]
    IN  IF DOMAIN rgb_color_map = {} THEN
            Return([colors |-> <<>>, legend |-> <<>>, has_legend |-> return_legend])
        ELSE IF duckframe = <<>> THEN
            Return([colors |-> <<>>, legend |-> <<>>, has_legend |-> return_legend])
        ELSE IF unmapped THEN Raise
        ELSE IF ~return_legend THEN
            Return([colors |-> color_array, legend |-> <<>>, has_legend |-> FALSE])
        ELSE Return([colors |-> color_array, legend |-> legend_data, has_legend |-> TRUE])

\* map_column_to_color with the mapping computed over the filtered set
map_column_to_color_filtered(mappings, duckframe, column, a, return_legend) ==
    LET validated_column == validate_column_name(column)
        colors == [i \in DOMAIN Palette |-> to_rgb(Palette[i])]
        unique_values == SortAsc({Col(duckframe[i], column) : i \in DOMAIN duckframe}
                                 \ {NULL})
        rgb_color_map ==
            [v \in Range(unique_values) \cup {NoneStr} |->
                IF v = NoneStr THEN NULL_VALUE_COLOR
                ELSE colors[((Index(unique_values, v) - 1) % Len(colors)) + 1]]
    IN  IF validated_column.raised THEN Raise
        ELSE ColorsAndLegend(rgb_color_map, duckframe, column, a, return_legend)

\* duckframe: the rows one execution of the relation returns, in its order.
\* mappings: GLOBAL_COLOR_MAPPINGS.
map_column_to_color(mappings, duckframe, column, a, return_legend) ==
    LET validated_column == validate_column_name(column)
        \* GLOBAL_COLOR_MAPPINGS.get(validated_column, {})
        rgb_color_map == IF column \in DOMAIN mappings THEN mappings[column] ELSE <<>>
    IN  IF validated_column.raised THEN Raise
        ELSE ColorsAndLegend(rgb_color_map, duckframe, column, a, return_legend)

-----------------------------------------------------------------------------
(* dashboard.py: StateViewer.                                               *)
(*                                                                          *)
(* A handler is run on a record st of the object's fields and gives the set *)
(* of records it can end in (one per order the engine may return tied rows  *)
(* in).  param calls the watchers of a field inside the assignment that     *)
(* changes it, in the order the methods are declared; an assignment of the  *)
(* value a field already has calls none.  st.raised: an exception is        *)
(* propagating, the rest of the handlers is skipped.                        *)

NoRelation == [none |-> TRUE, where |-> <<>>]
Relation(where) == [none |-> FALSE, where |-> where]

NoSelection == [none |-> TRUE, rows |-> <<>>]
Selection(rows) == [none |-> FALSE, rows |-> rows]

\* Map(view_state={"longitude": -71.0589, "latitude": 42.3601, "zoom": 10})
InitialView == [fit |-> "initial", minx |-> 0, miny |-> 0, maxx |-> 0, maxy |-> 0]

Quote(value) == <<"'">> \o escape_sql_string(value) \o <<"'">>

\* _build_filter_conditions without the source filter
_build_filter_conditions_no_source(st) ==
    LET start_date == TIME_PERIODS[st.time_period][1]
        end_date == TIME_PERIODS[st.time_period][2]
    IN  <<GeometryNotNull, TimeRange(start_date, end_date)>>
        \o (IF st.neighborhood # All
            THEN <<Equals("neighborhood", Quote(st.neighborhood))>> ELSE <<>>)
        \o (IF st.subject # All THEN <<Equals("subject", Quote(st.subject))>> ELSE <<>>)

_build_filter_conditions(st) ==
    LET start_date == TIME_PERIODS[st.time_period][1]
        end_date == TIME_PERIODS[st.time_period][2]
    IN  <<GeometryNotNull, TimeRange(start_date, end_date)>>
        \o (IF st.neighborhood # All
            THEN <<Equals("neighborhood", Quote(st.neighborhood))>> ELSE <<>>)
        \o (IF st.source # All THEN <<Equals("source", Quote(st.source))>> ELSE <<>>)
        \o (IF st.subject # All THEN <<Equals("subject", Quote(st.subject))>> ELSE <<>>)

Log(st, entry) == [st EXCEPT !.issued = Append(@, entry)]

QueryEntry(kind, where, index) == [kind |-> kind, where |-> where, index |-> index]

\* a layer on which the point-selection handler is not registered
Layer_unobserved(rows, uniform, colors, radius) ==
    [rows |-> rows, uniform |-> uniform, colors |-> colors, get_radius |-> radius,
     observed |-> FALSE]

\* ScatterplotLayer.from_duckdb(self.data, get_fill_color=..., get_radius=self.size)
\* followed by layer.observe(self._handle_point_selection, names=["selected_index"])
Layer(rows, uniform, colors, radius) ==
    [rows |-> rows, uniform |-> uniform, colors |-> colors, get_radius |-> radius,
     observed |-> TRUE]

_update_value(st) ==
    IF st.raised \/ st.data.none THEN {st}
    ELSE IF st.color_column = "None" THEN
        LET get_fill_color ==
                <<DEFAULT_POINT_COLOR[1], DEFAULT_POINT_COLOR[2], DEFAULT_POINT_COLOR[3],
                  AlphaChannel(st.alpha)>>
        IN  {[st EXCEPT !.color_legend = <<>>,
                        !.layers = <<Layer(rows, TRUE, <<get_fill_color>>, st.size)>>] :
                rows \in ExecSelect(st.data.where)}
    ELSE
        UNION {
            LET mapped == map_column_to_color(st.mappings, duckframe, st.color_column,
                                              st.alpha, TRUE)
            IN  IF mapped.raised THEN {[st EXCEPT !.raised = TRUE]}
                ELSE {[st EXCEPT !.color_legend = mapped.value.legend,
                                 !.layers = <<Layer(rows, FALSE, mapped.value.colors,
                                                    st.size)>>] :
                        rows \in ExecSelect(st.data.where)}
            : duckframe \in ExecSelect(st.data.where)}

\* compute_view(self.lb_map.layers): the view that holds the layer's points; of a
\* layer without points, the library's default view
compute_view(layer) ==
    LET xs == {requests[layer.rows[i]].geometry.x : i \in DOMAIN layer.rows}
        ys == {requests[layer.rows[i]].geometry.y : i \in DOMAIN layer.rows}
    IN  IF layer.rows = <<>>
        THEN [fit |-> "default", minx |-> 0, miny |-> 0, maxx |-> 0, maxy |-> 0]
        ELSE [fit |-> "bounds",
              minx |-> CHOOSE v \in xs : \A w \in xs : v <= w,
              miny |-> CHOOSE v \in ys : \A w \in ys : v <= w,
              maxx |-> CHOOSE v \in xs : \A w \in xs : v >= w,
              maxy |-> CHOOSE v \in ys : \A w \in ys : v >= w]

_fly_to_center(st) ==
    IF st.raised \/ st.layers = <<>> THEN st
    ELSE [st EXCEPT !.view_state = compute_view(st.layers[1])]

\* _update_data that also drops the selection made under the earlier filter
_update_data_clearing(st) ==
    IF st.raised THEN {st}
    ELSE LET where_conditions == _build_filter_conditions(st)
             logged == Log(st, QueryEntry("data", where_conditions, 0))
         IN  {_fly_to_center([t EXCEPT !.selected_data = NoSelection,
                                       !.show_table = FALSE]) :
                 t \in _update_value([logged EXCEPT !.data = Relation(where_conditions)])}

\* self.data = con.sql(query): the watchers of data are _update_value, _fly_to_center
_update_data(st) ==
    IF st.raised THEN {st}
    ELSE LET where_conditions == _build_filter_conditions(st)
             logged == Log(st, QueryEntry("data", where_conditions, 0))
         IN  IF ~WhereOk(where_conditions) THEN {[logged EXCEPT !.raised = TRUE]}
             ELSE {_fly_to_center(t) :
                      t \in _update_value([logged EXCEPT !.data = Relation(where_conditions)])}

\* self.<field> = value, for a field _update_data watches
SetFilter(st, field, value) ==
    IF st.raised \/ st[field] = value THEN {st}
    ELSE _update_data([st EXCEPT ![field] = value])

\* _update_time_period that recomputes the options and leaves the three fields
_update_time_period_no_reset(st) ==
    IF st.raised THEN {st}
    ELSE LET start_date == TIME_PERIODS[st.time_period][1]
             end_date == TIME_PERIODS[st.time_period][2]
         IN  {[st EXCEPT !.objects =
                  [neighborhood |-> get_neighborhoods(start_date, end_date),
                   source |-> get_sources(start_date, end_date),
                   subject |-> get_subjects(start_date, end_date)]]}

_update_time_period(st) ==
    IF st.raised THEN {st}
    ELSE LET start_date == TIME_PERIODS[st.time_period][1]
             end_date == TIME_PERIODS[st.time_period][2]
             st1 == [st EXCEPT !.objects =
                        [neighborhood |-> get_neighborhoods(start_date, end_date),
                         source |-> get_sources(start_date, end_date),
                         subject |-> get_subjects(start_date, end_date)]]
         IN  UNION {UNION {SetFilter(t2, "subject", All) :
                              t2 \in SetFilter(t1, "source", All)} :
                       t1 \in SetFilter(st1, "neighborhood", All)}

Step(st) == [st EXCEPT !.steps = Append(@, <<st.show_table, ~st.selected_data.none>>)]

\* _handle_point_selection that hides the table of a click without index but
\* keeps the rows
_handle_point_selection_keep(st, selected_index) ==
    IF selected_index = -1 THEN {Step([st EXCEPT !.show_table = FALSE])}
    ELSE LET where_conditions == _build_filter_conditions(st)
             logged == Log(st, QueryEntry("point", where_conditions, selected_index))
         IN  {Step([Step([logged EXCEPT !.selected_data = Selection(rows)])
                       EXCEPT !.show_table = TRUE]) :
                 rows \in ExecPoint(where_conditions, selected_index)}

\* _handle_point_selection that drops the rows before it hides the table
_handle_point_selection_swapped(st, selected_index) ==
    IF selected_index = -1 THEN
        {Step([Step([st EXCEPT !.selected_data = NoSelection]) EXCEPT !.show_table = FALSE])}
    ELSE LET where_conditions == _build_filter_conditions(st)
             logged == Log(st, QueryEntry("point", where_conditions, selected_index))
         IN  {Step([Step([logged EXCEPT !.selected_data = Selection(rows)])
                       EXCEPT !.show_table = TRUE]) :
                 rows \in ExecPoint(where_conditions, selected_index)}

_handle_point_selection(st, selected_index) ==
    IF selected_index = -1 THEN
        {Step([Step([st EXCEPT !.show_table = FALSE]) EXCEPT !.selected_data = NoSelection])}
    ELSE LET where_conditions == _build_filter_conditions(st)
             logged == Log(st, QueryEntry("point", where_conditions, selected_index))
         IN  IF ~WhereOk(where_conditions) THEN {[logged EXCEPT !.raised = TRUE]}
             ELSE {Step([Step([logged EXCEPT !.selected_data = Selection(rows)])
                            EXCEPT !.show_table = TRUE]) :
                      rows \in ExecPoint(where_conditions, selected_index)}

\* _handle_bbox_selection that hides the table of an invalid box but keeps the rows
_handle_bbox_selection_keep(st, bounds) ==
    IF bounds.none \/ bounds.coords = <<>> \/ Len(bounds.coords) # 4 THEN
        {Step([st EXCEPT !.show_table = FALSE])}
    ELSE LET where_conditions ==
                 _build_filter_conditions(st)
                 \o <<InBox(bounds.coords[1], bounds.coords[2],
                            bounds.coords[3], bounds.coords[4])>>
             logged == Log(st, QueryEntry("bbox", where_conditions, 0))
         IN  {Step([Step([logged EXCEPT !.selected_data = Selection(rows)])
                       EXCEPT !.show_table = TRUE]) :
                 rows \in ExecLimit(where_conditions, MAX_SELECTION_RECORDS)}

\* bounds: None is [none |-> TRUE], a tuple is its coordinates
_handle_bbox_selection(st, bounds) ==
    IF bounds.none \/ bounds.coords = <<>> \/ Len(bounds.coords) # 4 THEN
        {Step([Step([st EXCEPT !.show_table = FALSE]) EXCEPT !.selected_data = NoSelection])}
    ELSE LET where_conditions ==
                 _build_filter_conditions(st)
                 \o <<InBox(bounds.coords[1], bounds.coords[2],
                            bounds.coords[3], bounds.coords[4])>>
             logged == Log(st, QueryEntry("bbox", where_conditions, 0))
         IN  IF ~WhereOk(where_conditions) THEN {[logged EXCEPT !.raised = TRUE]}
             ELSE {Step([Step([logged EXCEPT !.selected_data = Selection(rows)])
                            EXCEPT !.show_table = TRUE]) :
                      rows \in ExecLimit(where_conditions, MAX_SELECTION_RECORDS)}

-----------------------------------------------------------------------------
(* The object and the events the UI delivers to it, one at a time *)

\* the object's fields at the start of an event
Cur ==
    [time_period |-> time_period, neighborhood |-> neighborhood, source |-> source,
     subject |-> subject, objects |-> objects, color_column |-> color_column,
     alpha |-> alpha, size |-> size, data |-> data, color_legend |-> color_legend,
     layers |-> layers, view_state |-> view_state, selected_data |-> selected_data,
     show_table |-> show_table, mappings |-> GLOBAL_COLOR_MAPPINGS,
     issued |-> <<>>, steps |-> <<>>, raised |-> FALSE]

Event(name, arg) == [name |-> name, arg |-> arg, raised |-> FALSE]

\* the object's fields once the handlers of event ev have returned
Install(t, ev) ==
    /\ time_period' = t.time_period
    /\ neighborhood' = t.neighborhood
    /\ source' = t.source
    /\ subject' = t.subject
    /\ objects' = t.objects
    /\ color_column' = t.color_column
    /\ alpha' = t.alpha
    /\ size' = t.size
    /\ data' = t.data
    /\ color_legend' = t.color_legend
    /\ layers' = t.layers
    /\ view_state' = t.view_state
    /\ selected_data' = t.selected_data
    /\ show_table' = t.show_table
    /\ issued' = t.issued
    /\ steps' = t.steps
    /\ event' = [ev EXCEPT !.raised = t.raised]
    /\ UNCHANGED <<GLOBAL_COLOR_MAPPINGS, call, result>>

YearToDate == "Year to Date"

\* the class attributes' defaults, before __init__ runs the on_init methods
Defaults ==
    [time_period |-> YearToDate, neighborhood |-> All, source |-> All, subject |-> All,
     objects |-> [neighborhood |-> get_neighborhoods(TIME_PERIODS[YearToDate][1],
                                                     TIME_PERIODS[YearToDate][2]),
                  source |-> get_sources(TIME_PERIODS[YearToDate][1],
                                         TIME_PERIODS[YearToDate][2]),
                  subject |-> get_subjects(TIME_PERIODS[YearToDate][1],
                                           TIME_PERIODS[YearToDate][2])],
     color_column |-> "None", alpha |-> 8, size |-> 5, data |-> NoRelation,
     color_legend |-> <<>>, layers |-> <<>>, view_state |-> InitialView,
     selected_data |-> NoSelection, show_table |-> FALSE,
     mappings |-> get_global_color_mappings,
     issued |-> <<>>, steps |-> <<>>, raised |-> FALSE]

\* StateViewer(): on_init=True runs _update_time_period, then _update_data
Constructed == UNION {_update_data(t) : t \in _update_time_period(Defaults)}

\* what the widgets and the map send
PeriodsChosen == {YearToDate, "Last 30 Days", "2024", CompleteLabel}
Alphas == {5, 8}
Sizes == {5, 6}
ColorChoices == {"None"} \cup Range(COLOR_COLUMNS)
NoBounds == [none |-> TRUE, coords |-> <<>>]
Bounds(coords) == [none |-> FALSE, coords |-> coords]
BoundsSent == {NoBounds, Bounds(<<1, 1, 2>>), Bounds(<<1, 1, 2, 2, 3>>),
               Bounds(<<1, 1, 2, 2>>), Bounds(<<0, 0, 3, 3>>)}

NoCall == [op |-> "none", args |-> <<>>]

Init ==
    /\ \E t \in Constructed :
        /\ time_period = t.time_period
        /\ neighborhood = t.neighborhood
        /\ source = t.source
        /\ subject = t.subject
        /\ objects = t.objects
        /\ color_column = t.color_column
        /\ alpha = t.alpha
        /\ size = t.size
        /\ data = t.data
        /\ color_legend = t.color_legend
        /\ layers = t.layers
        /\ view_state = t.view_state
        /\ selected_data = t.selected_data
        /\ show_table = t.show_table
        /\ issued = t.issued
        /\ steps = t.steps
        /\ GLOBAL_COLOR_MAPPINGS = t.mappings
    /\ event = Event("__init__", <<>>)
    /\ call = NoCall
    /\ result = Return(<<>>)

\* the time period select: watched by _update_time_period, then _update_data
SetTimePeriod(p) ==
    /\ p # time_period
    /\ \E t \in UNION {_update_data(u) :
                         u \in _update_time_period([Cur EXCEPT !.time_period = p])} :
          Install(t, Event("time_period", <<>>))

SetNeighborhood(v) ==
    /\ v \in Range(objects.neighborhood)
    /\ v # neighborhood
    /\ \E t \in SetFilter(Cur, "neighborhood", v) : Install(t, Event("neighborhood", <<>>))

SetSource(v) ==
    /\ v \in Range(objects.source)
    /\ v # source
    /\ \E t \in SetFilter(Cur, "source", v) : Install(t, Event("source", <<>>))

SetSubject(v) ==
    /\ v \in Range(objects.subject)
    /\ v # subject
    /\ \E t \in SetFilter(Cur, "subject", v) : Install(t, Event("subject", <<>>))

SetColorColumn(c) ==
    /\ c # color_column
    /\ \E t \in _update_value([Cur EXCEPT !.color_column = c]) :
          Install(t, Event("color_column", <<>>))

SetAlpha(a) ==
    /\ a # alpha
    /\ \E t \in _update_value([Cur EXCEPT !.alpha = a]) : Install(t, Event("alpha", <<>>))

SetSize(z) ==
    /\ z # size
    /\ \E t \in _update_value([Cur EXCEPT !.size = z]) : Install(t, Event("size", <<>>))

\* the layer's selected_index changed: an index into the layer's rows, or None (-1)
PointSelected(selected_index) ==
    /\ layers # <<>>
    /\ layers[1].observed
    /\ selected_index < Len(layers[1].rows)
    /\ \E t \in _handle_point_selection(Cur, selected_index) :
          Install(t, Event("selected_index", <<selected_index>>))

\* the map's selected_bounds changed
BBoxSelected(bounds) ==
    \E t \in _handle_bbox_selection(Cur, bounds) :
        Install(t, Event("selected_bounds", IF bounds.none THEN <<-1>> ELSE bounds.coords))

Values == UNION {Range(get_neighborhoods(0, 0)), Range(get_sources(0, 0)),
                 Range(get_subjects(0, 0))}

FilterEvent ==
    \/ \E p \in PeriodsChosen : SetTimePeriod(p)
    \/ \E v \in Values : SetNeighborhood(v)
    \/ \E v \in Values : SetSource(v)
    \/ \E v \in Values : SetSubject(v)

StyleEvent ==
    \/ \E c \in ColorChoices : SetColorColumn(c)
    \/ \E a \in Alphas : SetAlpha(a)
    \/ \E z \in Sizes : SetSize(z)

SelectionEvent ==
    \/ \E i \in -1..(Len(requests) - 1) : PointSelected(i)
    \/ \E b \in BoundsSent : BBoxSelected(b)

\* filters and selections, at the default style
Next == FilterEvent \/ SelectionEvent

Spec == Init /\ [][Next]_vars

\* filters and styles, without selections
NextStyle == FilterEvent \/ StyleEvent

SpecStyle == Init /\ [][NextStyle]_vars

\* filters, styles and selections together: two time periods, two color
\* columns, one click with and one without index, one valid and one absent box
FilterEventFew ==
    \/ \E p \in {YearToDate, "Last 30 Days"} : SetTimePeriod(p)
    \/ \E v \in Values : SetNeighborhood(v)
    \/ \E v \in Values : SetSource(v)
    \/ \E v \in Values : SetSubject(v)

StyleEventFew ==
    \/ \E c \in {"None", "source"} : SetColorColumn(c)
    \/ \E a \in Alphas : SetAlpha(a)
    \/ \E z \in Sizes : SetSize(z)

SelectionEventFew ==
    \/ \E i \in {-1, 0} : PointSelected(i)
    \/ \E b \in {NoBounds, Bounds(<<1, 1, 2, 2>>)} : BBoxSelected(b)

NextAll == FilterEventFew \/ StyleEventFew \/ SelectionEventFew

SpecAll == Init /\ [][NextAll]_vars

-----------------------------------------------------------------------------
(* The library functions called on their own: any string, any column name,  *)
(* any pair of time bounds, any filtered set.  The object stays as          *)
(* constructed.                                                             *)

ColumnNames == Range(COLOR_COLUMNS) \cup {"open_dt", "geometry", "None", "Source"}

\* time bounds: 0 is an absent bound
DateBounds == {0, 20110101, 20120101, 20250101, 20250310, 20250311, 20250801,
               20250802, 20250815, 20260101}

\* filtered sets: what the dashboard's query returns for a time period, and none
Duckframes ==
    {<<>>} \cup UNION {ExecSelect(<<GeometryNotNull,
                                    TimeRange(TIME_PERIODS[p][1], TIME_PERIODS[p][2])>>) :
                         p \in PeriodsChosen}

AlphasCalled == {0, 5, 8, 10}

CallEscape(value) ==
    /\ call' = [op |-> "escape_sql_string", args |-> <<value>>]
    /\ result' = Return(escape_sql_string(value))
    /\ UNCHANGED dashVars

\* _build_filter_conditions with self.<column> = value, the other two "All"
CallBuildFilter(column, value) ==
    /\ call' = [op |-> "_build_filter_conditions", args |-> <<column, value>>]
    /\ result' = Return(_build_filter_conditions(
                            [[Defaults EXCEPT !.time_period = CompleteLabel]
                                EXCEPT ![column] = value]))
    /\ UNCHANGED dashVars

CallValidate(column) ==
    /\ call' = [op |-> "validate_column_name", args |-> <<column>>]
    /\ result' = validate_column_name(column)
    /\ UNCHANGED dashVars

CallDistinctQuery(column) ==
    /\ call' = [op |-> "build_distinct_column_query", args |-> <<column>>]
    /\ result' = build_distinct_column_query(column, NoTimeFilter)
    /\ UNCHANGED dashVars

\* get_neighborhoods, get_sources, get_subjects
CallLookup(column, start_date, end_date) ==
    /\ call' = [op |-> "get_distinct", args |-> <<column, start_date, end_date>>]
    /\ result' = Return(CASE column = "neighborhood" -> get_neighborhoods(start_date, end_date)
                          [] column = "source" -> get_sources(start_date, end_date)
                          [] column = "subject" -> get_subjects(start_date, end_date))
    /\ UNCHANGED dashVars

CallMapColor(duckframe, column, a, return_legend) ==
    /\ call' = [op |-> "map_column_to_color",
                args |-> <<duckframe, column, a, return_legend>>]
    /\ result' = map_column_to_color(GLOBAL_COLOR_MAPPINGS, duckframe, column, a,
                                     return_legend)
    /\ UNCHANGED dashVars

\* datetime.now() at the call
Clock == {<<2011, 6, 1>>, <<2014, 3, 31>>, <<2016, 12, 31>>, <<2017, 1, 1>>,
          <<2020, 2, 29>>, <<2025, 8, 15>>, <<2026, 11, 5>>}

CallTimePeriods(now) ==
    /\ call' = [op |-> "get_time_periods", args |-> <<now>>]
    /\ result' = Return(get_time_periods(now))
    /\ UNCHANGED dashVars

NextFn ==
    \/ \E value \in StringsUpTo(MaxLen) : CallEscape(value)
    \/ \E column \in Range(COLOR_COLUMNS), value \in StringsUpTo(MaxLen) :
          CallBuildFilter(column, value)
    \/ \E column \in ColumnNames : CallValidate(column)
    \/ \E column \in ColumnNames : CallDistinctQuery(column)
    \/ \E column \in Range(COLOR_COLUMNS), start_date \in DateBounds, end_date \in DateBounds :
          CallLookup(column, start_date, end_date)
    \/ \E duckframe \in Duckframes, column \in ColumnNames, a \in AlphasCalled,
          return_legend \in BOOLEAN :
          CallMapColor(duckframe, column, a, return_legend)
    \/ \E now \in Clock : CallTimePeriods(now)

SpecFn == Init /\ [][NextFn]_vars

-----------------------------------------------------------------------------
(* The claims *)

Whitelist == {"source", "subject", "neighborhood"}

NoEquality(where) == \A j \in DOMAIN where : where[j].kind # "eq"

\* C1: when time_period changes, the allowed values of neighborhood, source and
\* subject are recomputed for the new period and the three fields are "All"
\* before any data query runs: no data query of the event carries an equality
\* on neighborhood, source or subject.
C1_ResetBeforeQuery ==
    event.name = "time_period" =>
        /\ objects = [neighborhood |-> get_neighborhoods(TIME_PERIODS[time_period][1],
                                                         TIME_PERIODS[time_period][2]),
                      source |-> get_sources(TIME_PERIODS[time_period][1],
                                             TIME_PERIODS[time_period][2]),
                      subject |-> get_subjects(TIME_PERIODS[time_period][1],
                                               TIME_PERIODS[time_period][2])]
        /\ neighborhood = All /\ source = All /\ subject = All
        /\ \A i \in DOMAIN issued :
              issued[i].kind = "data" => NoEquality(issued[i].where)

\* the rows the current selection of the four filter fields asks for
Wanted ==
    {r \in RowIds :
        /\ ~requests[r].geometry.null
        /\ requests[r].open_dt >= TIME_PERIODS[time_period][1]
        /\ requests[r].open_dt < TIME_PERIODS[time_period][2]
        /\ (neighborhood # All => requests[r].neighborhood = neighborhood)
        /\ (source # All => requests[r].source = source)
        /\ (subject # All => requests[r].subject = subject)}

IsDescending(rows) ==
    \A i \in 1..(Len(rows) - 1) : requests[rows[i]].open_dt >= requests[rows[i + 1]].open_dt

IsOrderOf(rows, S) ==
    /\ Len(rows) = Cardinality(S)
    /\ Range(rows) = S
    /\ IsDescending(rows)

\* C2: once the handlers of an event have returned, the result set is exactly
\* the rows with a geometry, open_dt in [start, end) of the current time period
\* and each field that is not "All" equal to its value, by open_dt descending.
C2_ResultSet ==
    /\ ~data.none
    /\ \A rows \in ExecSelect(data.where) : IsOrderOf(rows, Wanted)
    /\ layers # <<>>
    /\ IsOrderOf(layers[1].rows, Wanted)

C2_Witness ==
    /\ event.name = "source"
    /\ neighborhood = <<"a", "'", "b">>
    /\ source = <<"a">>
    /\ layers[1].rows = <<3>>

\* C3: a click on the point of rank i of the displayed layer makes selected_data
\* the one row at position i of the displayed result set, and shows the table.
C3_ClickSelectsDisplayedRow ==
    (event.name = "selected_index" /\ event.arg[1] >= 0) =>
        /\ show_table
        /\ selected_data = Selection(<<layers[1].rows[event.arg[1] + 1]>>)

\* C4: a bounding box that is None or has not exactly 4 coordinates clears the
\* selection and hides the table, builds no query and does not raise.
C4_InvalidBoxClears ==
    (event.name = "selected_bounds" /\ Len(event.arg) # 4) =>
        /\ selected_data = NoSelection
        /\ ~show_table
        /\ issued = <<>>
        /\ ~event.raised

\* the box of 3 coordinates came while a selection was shown
C4_Witness ==
    /\ event.name = "selected_bounds"
    /\ event.arg = <<1, 1, 2>>
    /\ steps[1] = <<FALSE, TRUE>>
    /\ selected_data = NoSelection

\* C5: the color of a value of a color column is the entry of the mapping
\* computed once over the whole table, whatever the filter: the mapping is the
\* startup one in every state, and every legend entry and every drawn color is
\* taken from it.
C5_StableColors ==
    /\ GLOBAL_COLOR_MAPPINGS = get_global_color_mappings
    /\ (color_column # "None" /\ layers # <<>>) =>
          /\ \A v \in DOMAIN color_legend :
                color_legend[v] = HexColor(GLOBAL_COLOR_MAPPINGS[color_column][v])
          /\ ~layers[1].uniform =>
                \A j \in DOMAIN layers[1].colors :
                    \E r \in Wanted :
                        SubSeq(layers[1].colors[j], 1, 3) =
                            GLOBAL_COLOR_MAPPINGS[color_column][AsStr(Col(r, color_column))]

\* a filter that leaves out the first neighborhood: the second keeps its color
C5_Witness ==
    /\ color_column = "neighborhood"
    /\ source = <<"b">>
    /\ DOMAIN color_legend = {<<"a", "'", "b">>}
    /\ layers[1].colors # <<>>

\* C6: map_column_to_color on an empty filtered set returns an empty color
\* array and an empty legend, and does not raise.
C6_EmptySet ==
    (/\ call.op = "map_column_to_color"
     /\ call.args[1] = <<>>
     /\ call.args[2] \in Whitelist) =>
        /\ ~result.raised
        /\ result.value.colors = <<>>
        /\ result.value.legend = <<>>

C6_Witness ==
    /\ call.op = "map_column_to_color"
    /\ call.args[1] = <<>>
    /\ call.args[2] = "source"
    /\ call.args[4]
    /\ ~result.raised
    /\ result.value.has_legend

\* C7: for every string v, 'escape_sql_string(v)' is a complete string literal
\* that reads back as v, and the predicate _build_filter_conditions builds from
\* a field value v matches exactly the rows whose field is v.
C7_EscapeRoundTrips ==
    /\ call.op = "escape_sql_string" =>
          LET lit == ParseLiteral(<<"'">> \o result.value \o <<"'">>)
          IN  lit.ok /\ lit.value = call.args[1]
    /\ call.op = "_build_filter_conditions" =>
          /\ WhereOk(result.value)
          /\ Matching(result.value) =
                {r \in RowIds :
                    /\ ~requests[r].geometry.null
                    /\ requests[r].open_dt >= TIME_PERIODS[CompleteLabel][1]
                    /\ requests[r].open_dt < TIME_PERIODS[CompleteLabel][2]
                    /\ Col(r, call.args[1]) = call.args[2]}

C7_Witness ==
    /\ call.op = "_build_filter_conditions"
    /\ call.args = <<"neighborhood", <<"a", "'", "b">>>>
    /\ Matching(result.value) = {2, 3}

\* C8: a distinct-value lookup returns, before the final "All", distinct values
\* in ascending order, each the non-null value of a row with open_dt in
\* [start, end); "All" is always the last element, alone when no row matches.
C8_DistinctLookup ==
    call.op = "get_distinct" =>
        LET column == call.args[1]
            start == call.args[2]
            end == call.args[3]
            out == result.value
            n == Len(out)
            inRange == {r \in RowIds :
                          /\ Col(r, column) # NULL
                          /\ (start # 0 /\ end # 0) =>
                                 (requests[r].open_dt >= start /\ requests[r].open_dt < end)}
        IN  /\ n >= 1
            /\ out[n] = All
            /\ \A i \in 1..(n - 1) : \E r \in inRange : Col(r, column) = out[i]
            /\ \A i \in 1..(n - 2) : StrLess(out[i], out[i + 1])
            /\ inRange = {} => out = <<All>>

C8_Witness ==
    /\ call.op = "get_distinct"
    /\ call.args = <<"neighborhood", 20250101, 20250815>>
    /\ result.value = <<<<"a">>, <<"a", "'", "b">>, All>>

\* C9: validate_column_name, build_distinct_column_query and map_column_to_color
\* raise on every column name outside (source, subject, neighborhood), and no
\* query is built; a name of the list is returned as it is.
C9_Whitelist ==
    /\ call.op \in {"validate_column_name", "build_distinct_column_query"} =>
          IF call.args[1] \in Whitelist
          THEN /\ ~result.raised
               /\ call.op = "validate_column_name" => result.value = call.args[1]
               /\ call.op = "build_distinct_column_query" =>
                      result.value.column = call.args[1]
          ELSE result = Raise
    /\ call.op = "map_column_to_color" =>
          (call.args[2] \notin Whitelist <=> result.raised)

C9_Witness ==
    /\ call.op = "build_distinct_column_query"
    /\ call.args[1] = "open_dt"
    /\ result = Raise

\* C10: with a color column chosen, every row of the layer has the RGB of the
\* global mapping's entry for that row's value of the column, and the alpha
\* channel int(alpha * 255) (127 for alpha 0.5).
C10_RowColors ==
    (color_column # "None" /\ layers # <<>>) =>
        /\ Len(layers[1].colors) = Len(layers[1].rows)
        /\ \A j \in DOMAIN layers[1].rows :
              layers[1].colors[j] =
                  GLOBAL_COLOR_MAPPINGS[color_column][AsStr(Col(layers[1].rows[j], color_column))]
                  \o <<(alpha * 255) \div 10>>


\* C11: once the handlers of an event have returned, each of neighborhood,
\* source and subject is "All" or one of the distinct values of its column
\* within the selected time period.
C11_FieldsWithinPeriod ==
    LET start_date == TIME_PERIODS[time_period][1]
        end_date == TIME_PERIODS[time_period][2]
    IN  /\ neighborhood \in Range(get_neighborhoods(start_date, end_date))
        /\ source \in Range(get_sources(start_date, end_date))
        /\ subject \in Range(get_subjects(start_date, end_date))
        /\ ~event.raised

\* a value chosen within a period other than the initial one, after the reset
C11_Witness ==
    /\ time_period = "Last 30 Days"
    /\ event.name = "neighborhood"
    /\ neighborhood = <<"a", "'", "b">>
    /\ source # All

\* the rows of requests a bounding box over the current filter asks for
BoxMatching(coords) ==
    Matching(_build_filter_conditions(Cur)
             \o <<InBox(coords[1], coords[2], coords[3], coords[4])>>)

\* C12: a bounding box of exactly 4 coordinates shows the table and selects
\* rows that all satisfy the current filter and lie in the box, each once, by
\* open_dt descending, at most MAX_SELECTION_RECORDS of them, and all of them
\* when no more than that qualify.
C12_BoxSelects ==
    (event.name = "selected_bounds" /\ Len(event.arg) = 4) =>
        /\ ~event.raised
        /\ show_table
        /\ ~selected_data.none
        /\ Range(selected_data.rows) \subseteq BoxMatching(event.arg)
        /\ Cardinality(Range(selected_data.rows)) = Len(selected_data.rows)
        /\ IsDescending(selected_data.rows)
        /\ Len(selected_data.rows) <= MAX_SELECTION_RECORDS
        /\ Cardinality(BoxMatching(event.arg)) <= MAX_SELECTION_RECORDS
              => Range(selected_data.rows) = BoxMatching(event.arg)

\* a box over more rows than the limit, cut to the limit
C12_Witness ==
    /\ event.name = "selected_bounds"
    /\ Len(event.arg) = 4
    /\ Cardinality(BoxMatching(event.arg)) > MAX_SELECTION_RECORDS
    /\ Len(selected_data.rows) = MAX_SELECTION_RECORDS


\* the calendar years a period could be named after
YearsNamed == 2000..2035

\* C13: for every current date the catalog has a year period
\* [Jan 1 of y, Jan 1 of y+1) for each year y from
\* max(MIN_YEAR, current_year - RECENT_YEARS_COUNT + 1) through current_year,
\* and for no other year.
C13_YearPeriods ==
    call.op = "get_time_periods" =>
        LET current_year == call.args[1][1]
            first == Max(MIN_YEAR, current_year - RECENT_YEARS_COUNT + 1)
        IN  /\ ~result.raised
            /\ \A y \in YearsNamed :
                  IF first <= y /\ y <= current_year
                  THEN /\ ToString(y) \in DOMAIN result.value
                       /\ result.value[ToString(y)] = <<Jan1(y), Jan1(y + 1)>>
                  ELSE ToString(y) \notin DOMAIN result.value


\* the colour arrays the current style gives the current result set
CurrentColors ==
    IF color_column = "None"
    THEN {<<<<DEFAULT_POINT_COLOR[1], DEFAULT_POINT_COLOR[2], DEFAULT_POINT_COLOR[3],
              (alpha * 255) \div 10>>>>}
    ELSE {map_column_to_color(GLOBAL_COLOR_MAPPINGS, duckframe, color_column, alpha,
                              TRUE).value.colors :
             duckframe \in ExecSelect(data.where)}

\* C14: once a change of the result set, color_column, alpha or size has been
\* handled with a result set present, the map holds exactly one point layer,
\* built from the current result set with the current colors and radius, with
\* the point-selection handler registered on it.
C14_OneObservedLayer ==
    ~data.none =>
        /\ ~event.raised
        /\ Len(layers) = 1
        /\ IsOrderOf(layers[1].rows, Matching(data.where))
        /\ layers[1].uniform = (color_column = "None")
        /\ layers[1].colors \in CurrentColors
        /\ layers[1].get_radius = size
        /\ layers[1].observed

\* a layer replaced by a style change, over a coloured result set
C14_Witness ==
    /\ event.name = "size"
    /\ size = 6
    /\ color_column = "source"
    /\ Len(layers) = 1
    /\ Len(layers[1].rows) >= 2
    /\ layers[1].get_radius = 6

\* C15: a point click without index leaves selected_data None and the table
\* hidden, whatever was selected before, and builds no query.
C15_NoIndexClears ==
    (event.name = "selected_index" /\ event.arg = <<-1>>) =>
        /\ ~event.raised
        /\ selected_data.none
        /\ ~show_table
        /\ issued = <<>>

\* a click without index on a shown selection: after its first assignment the
\* table is hidden and the rows are still held
C15_Witness ==
    /\ event.name = "selected_index"
    /\ event.arg = <<-1>>
    /\ Len(steps) = 2
    /\ steps[1] = <<FALSE, TRUE>>

\* C17: in the state an event ends in, and after each of the two assignments
\* inside the point-click and bounding-box handlers, show_table implies that
\* selected_data is not None.
C17_TableHasRows ==
    /\ show_table => ~selected_data.none
    /\ \A i \in DOMAIN steps : steps[i][1] => steps[i][2]

\* a selection replacing a shown one, and a shown one being cleared
C17_Witness ==
    /\ event.name \in {"selected_index", "selected_bounds"}
    /\ Len(steps) = 2
    /\ \/ steps = <<(<<TRUE, TRUE>>), (<<TRUE, TRUE>>)>>
       \/ steps = <<(<<FALSE, TRUE>>), (<<FALSE, FALSE>>)>>
    /\ ~show_table


\* C16: a legend requested for a filtered set that is not empty has exactly
\* the values of the color column that occur in the set as its keys, the
\* reserved key "None" standing for rows whose value is null, each with the
\* #RRGGBB form of the value's global color.
C16_LegendKeys ==
    (/\ call.op = "map_column_to_color"
     /\ call.args[2] \in Whitelist
     /\ call.args[4]
     /\ call.args[1] # <<>>) =>
        LET duckframe == call.args[1]
            column == call.args[2]
            present == {AsStr(Col(duckframe[i], column)) : i \in DOMAIN duckframe}
        IN  /\ ~result.raised
            /\ DOMAIN result.value.legend = present
            /\ \A v \in present :
                  result.value.legend[v] = HexColor(GLOBAL_COLOR_MAPPINGS[column][v])


\* C19: under every filter selection and for every color column, each value
\* that is not null in the current result set has an entry in the global
\* mapping computed at startup, and no handler meets an unmapped value.
C19_ValuesMapped ==
    /\ ~event.raised
    /\ GLOBAL_COLOR_MAPPINGS = get_global_color_mappings
    /\ ~data.none =>
          \A column \in Range(COLOR_COLUMNS) :
              \A r \in Matching(data.where) :
                  Col(r, column) # NULL =>
                      Col(r, column) \in DOMAIN GLOBAL_COLOR_MAPPINGS[column]

\* the complete dataset coloured by a column, rows older than a year among them
C19_Witness ==
    /\ time_period = CompleteLabel
    /\ color_column = "subject"
    /\ neighborhood = All /\ source = All /\ subject = All
    /\ Len(layers) = 1
    /\ ~layers[1].uniform
    /\ Len(layers[1].colors) = Cardinality(Matching(data.where))
    /\ \E r \in Matching(data.where) : requests[r].open_dt < 20240815


FilterNames == {"time_period", "neighborhood", "source", "subject"}

StyleNames == {"color_column", "alpha", "size"}

\* C18: a change of a filter field or of a style field leaves selected_data and
\* show_table as they were; only point clicks and bounding boxes change them.
C18_SelectionKept ==
    [][event'.name \in FilterNames \cup StyleNames
          => UNCHANGED <<selected_data, show_table>>]_vars

\* a shown selection whose rows the filter chosen afterwards no longer matches
C18_Witness ==
    /\ event.name \in FilterNames
    /\ show_table
    /\ ~selected_data.none
    /\ selected_data.rows # <<>>
    /\ \E i \in DOMAIN selected_data.rows :
          selected_data.rows[i] \notin Matching(data.where)

=============================================================================
